---- MODULE Spec2Model ----
(***************************************************************************)
(* A model of Vector<T> and RawMemory<T> of advanced-vector/vector.h.      *)
(*                                                                         *)
(* A buffer (RawMemory) is a sequence of slots; a slot is Raw (storage     *)
(* without an object) or holds the value of a constructed element.  A      *)
(* Vector is a buffer data_ and a count size_.  Every operation of Vector  *)
(* is an operator that computes, from the vector, the arguments and the    *)
(* point at which an element operation or the allocation throws, the       *)
(* vector the call leaves behind, how the call ended, the objects it lost  *)
(* (a buffer released with constructed slots, a slot constructed over) and *)
(* the destructor calls it made on slots holding no object.                *)
(***************************************************************************)
EXTENDS Integers, Sequences, FiniteSets, TLC

\* Largest capacity a buffer of the modelled vector is allowed to reach.
MaxCap == 3
\* Largest capacity of the second vector of a two-vector operation.
MaxOtherCap == 2
\* Element values an argument may carry are 0..MaxVal.
MaxVal == 1
\* Longest run of appends to a default-constructed vector (SpecAppend).
MaxAppends == 6

\* A slot of raw storage: no object lives there.
Raw == -2
\* The value of an element after it was the source of a move.
MovedFrom == -1
\* The value of a value-initialised element, T().
DefaultValue == 0

Values == 0..MaxVal

(***************************************************************************)
(* The element type T.  The three kinds differ in what                     *)
(* is_nothrow_move_constructible_v<T> || !is_copy_constructible_v<T>       *)
(* selects and in which element operations can throw.                      *)
(*   nothrow_move : copyable, the move constructor is noexcept; relocated  *)
(*                  by move.                                               *)
(*   copy_reloc   : copyable, the move constructor may throw; relocated    *)
(*                  by copy.                                               *)
(*   move_only    : not copyable, the move constructor may throw;          *)
(*                  relocated by move.                                     *)
(* Copies, assignments, constructions from arguments and                   *)
(* value-initialisations may throw in every kind.  An element operation    *)
(* that throws leaves its source and its destination as they were.  A      *)
(* completed move leaves its source MovedFrom.                             *)
(***************************************************************************)
Kinds == {"nothrow_move", "copy_reloc", "move_only"}

RelocByMove(k) == k \in {"nothrow_move", "move_only"}
MoveMayThrow(k) == k # "nothrow_move"
Copyable(k) == k # "move_only"

NoFault == [at |-> "none", k |-> 0]
Fault(at, k) == [at |-> at, k |-> k]

Min(x, y) == IF x < y THEN x ELSE y
Max(x, y) == IF x > y THEN x ELSE y

---------------------------------------------------------------------------
(* RawMemory *)

Allocate(n) == [i \in 1..n |-> Raw]

Capacity(buf) == Len(buf)

\* Objects still alive in a buffer at the time RawMemory's destructor
\* releases it: they are never destroyed.
Deallocate(buf) == Cardinality({i \in DOMAIN buf : buf[i] # Raw})

---------------------------------------------------------------------------
(* <memory> algorithms on slots; offsets are 0-based as in the source. *)

InRange(i, off, n) == i > off /\ i <= off + n

\* destroy_n with the destructor calls left out.
destroy_n_Forgotten(buf, off, n) == buf

\* std::destroy_n(buf + off, n): the buffer afterwards.
destroy_n(buf, off, n) ==
    [i \in DOMAIN buf |-> IF InRange(i, off, n) THEN Raw ELSE buf[i]]

\* Destructor calls of std::destroy_n(buf + off, n) on slots without object.
BadDestroys(buf, off, n) ==
    Cardinality({i \in DOMAIN buf : InRange(i, off, n) /\ buf[i] = Raw})

\* Objects overwritten without being destroyed when n objects are
\* constructed at buf + off.
Overwritten(buf, off, n) ==
    Cardinality({i \in DOMAIN buf : InRange(i, off, n) /\ buf[i] # Raw})

\* std::uninitialized_copy_n(src + soff, n, dst + doff).  failAt = 0: no
\* copy throws; failAt = j: the j-th copy throws, and the algorithm destroys
\* the j - 1 objects it had constructed.
uninitialized_copy_n(src, soff, n, dst, doff, failAt) ==
    IF failAt \in 1..n
    THEN [ok |-> FALSE, src |-> src, dst |-> destroy_n(dst, doff, failAt - 1),
          lost |-> Overwritten(dst, doff, failAt - 1)]
    ELSE [ok |-> TRUE, src |-> src,
          dst |-> [i \in DOMAIN dst |->
                     IF InRange(i, doff, n) THEN src[i - doff + soff] ELSE dst[i]],
          lost |-> Overwritten(dst, doff, n)]

\* std::uninitialized_move_n(src + soff, n, dst + doff): as above, and every
\* source whose move completed is left moved-from.
uninitialized_move_n(src, soff, n, dst, doff, failAt) ==
    IF failAt \in 1..n
    THEN [ok |-> FALSE,
          src |-> [i \in DOMAIN src |->
                     IF InRange(i, soff, failAt - 1) THEN MovedFrom ELSE src[i]],
          dst |-> destroy_n(dst, doff, failAt - 1),
          lost |-> Overwritten(dst, doff, failAt - 1)]
    ELSE [ok |-> TRUE,
          src |-> [i \in DOMAIN src |->
                     IF InRange(i, soff, n) THEN MovedFrom ELSE src[i]],
          dst |-> [i \in DOMAIN dst |->
                     IF InRange(i, doff, n) THEN src[i - doff + soff] ELSE dst[i]],
          lost |-> Overwritten(dst, doff, n)]

\* The if constexpr of Reserve, Resize, EmplaceBack and Emplace.
Relocate(k, src, soff, n, dst, doff, failAt) ==
    IF RelocByMove(k)
    THEN uninitialized_move_n(src, soff, n, dst, doff, failAt)
    ELSE uninitialized_copy_n(src, soff, n, dst, doff, failAt)

\* uninitialized_value_construct_n constructing one element too few.
uninitialized_value_construct_n_OneShort(buf, off, n, failAt) ==
    IF failAt \in 1..n
    THEN [ok |-> FALSE, dst |-> destroy_n(buf, off, failAt - 1),
          lost |-> Overwritten(buf, off, failAt - 1)]
    ELSE [ok |-> TRUE,
          dst |-> [i \in DOMAIN buf |->
                     IF InRange(i, off, n - 1) THEN DefaultValue ELSE buf[i]],
          lost |-> Overwritten(buf, off, n - 1)]

\* std::uninitialized_value_construct_n(buf + off, n).
uninitialized_value_construct_n(buf, off, n, failAt) ==
    IF failAt \in 1..n
    THEN [ok |-> FALSE, dst |-> destroy_n(buf, off, failAt - 1),
          lost |-> Overwritten(buf, off, failAt - 1)]
    ELSE [ok |-> TRUE,
          dst |-> [i \in DOMAIN buf |->
                     IF InRange(i, off, n) THEN DefaultValue ELSE buf[i]],
          lost |-> Overwritten(buf, off, n)]

\* ConstructAt with the arguments not forwarded: new (buf + off) T().
ConstructAt_NoArgs(buf, off, v) == [buf EXCEPT ![off + 1] = DefaultValue]

\* new (buf + off) T(v)
ConstructAt(buf, off, v) == [buf EXCEPT ![off + 1] = v]

---------------------------------------------------------------------------
(* Arguments.  An element argument is a value, or a reference to the       *)
(* element idx of the vector the call is made on, read when the element is *)
(* constructed from it.                                                    *)

ValueArg(v) == [alias |-> FALSE, val |-> v, idx |-> 0]
AliasArg(i) == [alias |-> TRUE, val |-> 0, idx |-> i]
ArgValue(arg, buf) == IF arg.alias THEN buf[arg.idx + 1] ELSE arg.val

\* What a call leaves: the vector, how it ended ("ok", "throw",
\* "out_of_range"), whether it allocated a new buffer, the index of the
\* returned iterator (-1: none), the objects lost and the destructor calls
\* on raw slots.
Result(d, s, outcome, realloc, ret, leaked, bad) ==
    [data |-> d, size |-> s, outcome |-> outcome, realloc |-> realloc,
     ret |-> ret, leaked |-> leaked, bad |-> bad]

---------------------------------------------------------------------------
(* Vector: construction and destruction *)

\* Vector(): no buffer, no element.
DefaultConstruct == Result(<<>>, 0, "ok", FALSE, -1, 0, 0)

\* Vector(size_t size).  Faults: "alloc"; "default" k, the k-th
\* value-initialisation throws.  When the constructor throws, data_ (already
\* constructed) is released and no Vector exists.
SizedConstruct(n, f) ==
    LET vc == uninitialized_value_construct_n(Allocate(n), 0, n,
                                              IF f.at = "default" THEN f.k ELSE 0)
    IN  IF f.at = "alloc" THEN Result(<<>>, 0, "throw", FALSE, -1, 0, 0)
        ELSE IF ~vc.ok
             THEN Result(<<>>, 0, "throw", TRUE, -1, vc.lost + Deallocate(vc.dst), 0)
             ELSE Result(vc.dst, n, "ok", TRUE, -1, vc.lost, 0)

\* Vector(const Vector& vector).  Faults: "alloc"; "copy" k.
CopyConstruct(rd, rs, f) ==
    LET cp == uninitialized_copy_n(rd, 0, rs, Allocate(rs), 0,
                                   IF f.at = "copy" THEN f.k ELSE 0)
    IN  IF f.at = "alloc" THEN Result(<<>>, 0, "throw", FALSE, -1, 0, 0)
        ELSE IF ~cp.ok
             THEN Result(<<>>, 0, "throw", TRUE, -1, cp.lost + Deallocate(cp.dst), 0)
             ELSE Result(cp.dst, rs, "ok", TRUE, -1, cp.lost, 0)

\* ~Vector() followed by ~RawMemory() of data_.
Destruct(d, s) ==
    Result(<<>>, 0, "ok", FALSE, -1,
           Deallocate(destroy_n(d, 0, s)), BadDestroys(d, 0, s))

---------------------------------------------------------------------------
(* Vector: Reserve, Resize, PopBack, EmplaceBack *)

\* Reserve applying the growth policy: max(capacity, 2 * Capacity()) slots.
Reserve_Doubling(d, s, k, capacity, f) ==
    IF capacity <= Capacity(d)
    THEN Result(d, s, "ok", FALSE, -1, 0, 0)
    ELSE LET newData == Allocate(Max(capacity, 2 * Capacity(d)))
             rel == Relocate(k, d, 0, s, newData, 0,
                             IF f.at = "reloc" THEN f.k ELSE 0)
             old == destroy_n(rel.src, 0, s)
         IN  IF f.at = "alloc" THEN Result(d, s, "throw", FALSE, -1, 0, 0)
             ELSE IF ~rel.ok
                  THEN Result(rel.src, s, "throw", TRUE, -1,
                              rel.lost + Deallocate(rel.dst), 0)
                  ELSE Result(rel.dst, s, "ok", TRUE, -1,
                              rel.lost + Deallocate(old),
                              BadDestroys(rel.src, 0, s))

\* Faults: "alloc"; "reloc" k, the k-th relocation throws.
Reserve(d, s, k, capacity, f) ==
    IF capacity <= Capacity(d)
    THEN Result(d, s, "ok", FALSE, -1, 0, 0)
    ELSE LET newData == Allocate(capacity)
             rel == Relocate(k, d, 0, s, newData, 0,
                             IF f.at = "reloc" THEN f.k ELSE 0)
             old == destroy_n(rel.src, 0, s)
         IN  IF f.at = "alloc" THEN Result(d, s, "throw", FALSE, -1, 0, 0)
             ELSE IF ~rel.ok
                  THEN Result(rel.src, s, "throw", TRUE, -1,
                              rel.lost + Deallocate(rel.dst), 0)
                  ELSE Result(rel.dst, s, "ok", TRUE, -1,
                              rel.lost + Deallocate(old),
                              BadDestroys(rel.src, 0, s))

\* Faults: "default" k; on the reallocating path also "alloc" and "reloc" k.
\* On the reallocating path nothing catches a throwing value-initialisation:
\* newData is released with the relocated elements in it.
Resize(d, s, k, new_size, f) ==
    IF new_size < s
    THEN Result(destroy_n(d, new_size, s - new_size), new_size, "ok", FALSE, -1,
                0, BadDestroys(d, new_size, s - new_size))
    ELSE IF new_size <= Capacity(d)
    THEN LET vc == uninitialized_value_construct_n(d, s, new_size - s,
                       IF f.at = "default" THEN f.k ELSE 0)
         IN  IF ~vc.ok
             THEN Result(vc.dst, s, "throw", FALSE, -1, vc.lost, 0)
             ELSE Result(vc.dst, new_size, "ok", FALSE, -1, vc.lost, 0)
    ELSE LET new_capacity ==
                 Max(new_size, IF Capacity(d) = 0 THEN 1 ELSE Capacity(d) * 2)
             newData == Allocate(new_capacity)
             rel == Relocate(k, d, 0, s, newData, 0,
                             IF f.at = "reloc" THEN f.k ELSE 0)
             vc == uninitialized_value_construct_n(rel.dst, s, new_size - s,
                       IF f.at = "default" THEN f.k ELSE 0)
             old == destroy_n(rel.src, 0, s)
         IN  IF f.at = "alloc" THEN Result(d, s, "throw", FALSE, -1, 0, 0)
             ELSE IF ~rel.ok
                  THEN Result(rel.src, s, "throw", TRUE, -1,
                              rel.lost + Deallocate(rel.dst), 0)
             ELSE IF ~vc.ok
                  THEN Result(rel.src, s, "throw", TRUE, -1,
                              rel.lost + vc.lost + Deallocate(vc.dst), 0)
                  ELSE Result(vc.dst, new_size, "ok", TRUE, -1,
                              rel.lost + vc.lost + Deallocate(old),
                              BadDestroys(rel.src, 0, s))

PopBack(d, s) ==
    IF s = 0
    THEN Result(d, s, "ok", FALSE, -1, 0, 0)
    ELSE Result(destroy_n(d, s - 1, 1), s - 1, "ok", FALSE, -1,
                0, BadDestroys(d, s - 1, 1))

\* EmplaceBack growing the buffer by one slot at a time.
EmplaceBack_GrowsByOne(d, s, k, arg, f) ==
    IF s < Capacity(d)
    THEN IF f.at = "new"
         THEN Result(d, s, "throw", FALSE, -1, 0, 0)
         ELSE Result(ConstructAt(d, s, ArgValue(arg, d)), s + 1, "ok", FALSE, s,
                     Overwritten(d, s, 1), 0)
    ELSE LET new_capacity == Capacity(d) + 1
             newData == Allocate(new_capacity)
             rel == Relocate(k, d, 0, s, newData, 0,
                             IF f.at = "reloc" THEN f.k ELSE 0)
             cleaned == destroy_n(rel.dst, 0, s)
             built == ConstructAt(rel.dst, s, ArgValue(arg, rel.src))
             old == destroy_n(rel.src, 0, s)
         IN  IF f.at = "alloc" THEN Result(d, s, "throw", FALSE, -1, 0, 0)
             ELSE IF ~rel.ok
                  THEN Result(rel.src, s, "throw", TRUE, -1,
                              rel.lost + Deallocate(rel.dst), 0)
             ELSE IF f.at = "new"
                  THEN Result(rel.src, s, "throw", TRUE, -1,
                              rel.lost + Deallocate(cleaned),
                              BadDestroys(rel.dst, 0, s))
                  ELSE Result(built, s + 1, "ok", TRUE, s,
                              rel.lost + Overwritten(rel.dst, s, 1) + Deallocate(old),
                              BadDestroys(rel.src, 0, s))

\* EmplaceBack growing the buffer to three times its capacity.
EmplaceBack_Triples(d, s, k, arg, f) ==
    IF s < Capacity(d)
    THEN IF f.at = "new"
         THEN Result(d, s, "throw", FALSE, -1, 0, 0)
         ELSE Result(ConstructAt(d, s, ArgValue(arg, d)), s + 1, "ok", FALSE, s,
                     Overwritten(d, s, 1), 0)
    ELSE LET new_capacity == IF Capacity(d) = 0 THEN 1 ELSE Capacity(d) * 3
             newData == Allocate(new_capacity)
             rel == Relocate(k, d, 0, s, newData, 0,
                             IF f.at = "reloc" THEN f.k ELSE 0)
             cleaned == destroy_n(rel.dst, 0, s)
             built == ConstructAt(rel.dst, s, ArgValue(arg, rel.src))
             old == destroy_n(rel.src, 0, s)
         IN  IF f.at = "alloc" THEN Result(d, s, "throw", FALSE, -1, 0, 0)
             ELSE IF ~rel.ok
                  THEN Result(rel.src, s, "throw", TRUE, -1,
                              rel.lost + Deallocate(rel.dst), 0)
             ELSE IF f.at = "new"
                  THEN Result(rel.src, s, "throw", TRUE, -1,
                              rel.lost + Deallocate(cleaned),
                              BadDestroys(rel.dst, 0, s))
                  ELSE Result(built, s + 1, "ok", TRUE, s,
                              rel.lost + Overwritten(rel.dst, s, 1) + Deallocate(old),
                              BadDestroys(rel.src, 0, s))

\* Faults: "new", the construction of the new element throws; on the
\* reallocating path also "alloc" and "reloc" k.  The new element is
\* constructed after the relocation, from the argument as it then is.
EmplaceBack(d, s, k, arg, f) ==
    IF s < Capacity(d)
    THEN IF f.at = "new"
         THEN Result(d, s, "throw", FALSE, -1, 0, 0)
         ELSE Result(ConstructAt(d, s, ArgValue(arg, d)), s + 1, "ok", FALSE, s,
                     Overwritten(d, s, 1), 0)
    ELSE LET new_capacity == IF Capacity(d) = 0 THEN 1 ELSE Capacity(d) * 2
             newData == Allocate(new_capacity)
             rel == Relocate(k, d, 0, s, newData, 0,
                             IF f.at = "reloc" THEN f.k ELSE 0)
             cleaned == destroy_n(rel.dst, 0, s)
             built == ConstructAt(rel.dst, s, ArgValue(arg, rel.src))
             old == destroy_n(rel.src, 0, s)
         IN  IF f.at = "alloc" THEN Result(d, s, "throw", FALSE, -1, 0, 0)
             ELSE IF ~rel.ok
                  THEN Result(rel.src, s, "throw", TRUE, -1,
                              rel.lost + Deallocate(rel.dst), 0)
             ELSE IF f.at = "new"
                  THEN Result(rel.src, s, "throw", TRUE, -1,
                              rel.lost + Deallocate(cleaned),
                              BadDestroys(rel.dst, 0, s))
                  ELSE Result(built, s + 1, "ok", TRUE, s,
                              rel.lost + Overwritten(rel.dst, s, 1) + Deallocate(old),
                              BadDestroys(rel.src, 0, s))

---------------------------------------------------------------------------
(* Vector: Emplace, Insert, Erase *)

\* MoveAssign with the two sides exchanged: data_[src] = std::move(data_[dst]).
MoveAssign_Reversed(buf, dst, src) ==
    IF dst = src THEN buf
    ELSE [buf EXCEPT ![src + 1] = buf[dst + 1], ![dst + 1] = MovedFrom]

\* data_[dst] = std::move(data_[src])
MoveAssign(buf, dst, src) ==
    IF dst = src THEN buf
    ELSE [buf EXCEPT ![dst + 1] = buf[src + 1], ![src + 1] = MovedFrom]

\* move_backward over the range one short at its start, [first + 1, last).
RECURSIVE move_backward_OffByOne(_, _, _, _, _)
move_backward_OffByOne(buf, first, last, d_last, m) ==
    IF m = 0 \/ first + 1 >= last THEN buf
    ELSE move_backward_OffByOne(MoveAssign(buf, d_last - 1, last - 1),
                                first, last - 1, d_last - 1, m - 1)

\* The first m assignments of std::move_backward(buf + first, buf + last,
\* buf + d_last): *(--d_last) = std::move(*(--last)).
RECURSIVE move_backward(_, _, _, _, _)
move_backward(buf, first, last, d_last, m) ==
    IF m = 0 \/ first >= last THEN buf
    ELSE move_backward(MoveAssign(buf, d_last - 1, last - 1),
                       first, last - 1, d_last - 1, m - 1)

\* Erase's loop stopping one element early: i + 2 < size_.
RECURSIVE ShiftLeft_StopsEarly(_, _, _, _)
ShiftLeft_StopsEarly(buf, i, s, m) ==
    IF m = 0 \/ i + 2 >= s THEN buf
    ELSE ShiftLeft_StopsEarly(MoveAssign(buf, i, i + 1), i + 1, s, m - 1)

\* The first m iterations of Erase's loop
\* for (i = index; i + 1 < size_; ++i) data_[i] = std::move(data_[i + 1]).
RECURSIVE ShiftLeft(_, _, _, _)
ShiftLeft(buf, i, s, m) ==
    IF m = 0 \/ i + 1 >= s THEN buf
    ELSE ShiftLeft(MoveAssign(buf, i, i + 1), i + 1, s, m - 1)

\* Emplace(begin() + pos, args...).  Faults, reallocating path: "alloc";
\* "reloc" k (prefix); "new"; "suffix" k.  In place: "new" (the element, or
\* the temporary); "last" (the move construction of the last element into
\* the free slot); "shift" k (the k-th assignment of move_backward);
\* "assign" (the assignment of the temporary).
Emplace(d, s, k, pos, arg, f) ==
    IF pos < 0 \/ pos > s
    THEN Result(d, s, "out_of_range", FALSE, -1, 0, 0)
    ELSE IF s = Capacity(d)
    THEN LET index == pos
             new_capacity == IF s = 0 THEN 1 ELSE s * 2
             new_data == Allocate(new_capacity)
             pre == Relocate(k, d, 0, index, new_data, 0,
                             IF f.at = "reloc" THEN f.k ELSE 0)
             noItem == destroy_n(pre.dst, 0, index)
             built == ConstructAt(pre.dst, index, ArgValue(arg, pre.src))
             suf == Relocate(k, pre.src, index, s - index, built, index + 1,
                             IF f.at = "suffix" THEN f.k ELSE 0)
             noSuffix == destroy_n(destroy_n(suf.dst, index, 1), 0, index)
             old == destroy_n(suf.src, 0, s)
         IN  IF f.at = "alloc" THEN Result(d, s, "throw", FALSE, -1, 0, 0)
             ELSE IF ~pre.ok
                  THEN Result(pre.src, s, "throw", TRUE, -1,
                              pre.lost + Deallocate(pre.dst), 0)
             ELSE IF f.at = "new"
                  THEN Result(pre.src, s, "throw", TRUE, -1,
                              pre.lost + Deallocate(noItem),
                              BadDestroys(pre.dst, 0, index))
             ELSE IF ~suf.ok
                  THEN Result(suf.src, s, "throw", TRUE, -1,
                              pre.lost + Overwritten(pre.dst, index, 1) + suf.lost
                                + Deallocate(noSuffix),
                              BadDestroys(suf.dst, index, 1)
                                + BadDestroys(suf.dst, 0, index))
                  ELSE Result(suf.dst, s + 1, "ok", TRUE, index,
                              pre.lost + Overwritten(pre.dst, index, 1) + suf.lost
                                + Deallocate(old),
                              BadDestroys(suf.src, 0, s))
    ELSE LET index == pos
             temp == ArgValue(arg, d)
             withLast == [ConstructAt(d, s, d[s]) EXCEPT ![s] = MovedFrom]
             total == s - 1 - index
             done == IF f.at = "shift" THEN f.k - 1 ELSE total
             shifted == move_backward(withLast, index, s - 1, s, done)
             assigned == [shifted EXCEPT ![index + 1] = temp]
         IN  IF index = s
             THEN IF f.at = "new"
                  THEN Result(d, s, "throw", FALSE, -1, 0, 0)
                  ELSE Result(ConstructAt(d, s, temp), s + 1, "ok", FALSE, index,
                              Overwritten(d, s, 1), 0)
             ELSE IF f.at \in {"new", "last"}
                  THEN Result(d, s, "throw", FALSE, -1, 0, 0)
             ELSE IF f.at \in {"shift", "assign"}
                  THEN Result(destroy_n(shifted, s, 1), s, "throw", FALSE, -1,
                              Overwritten(d, s, 1), BadDestroys(shifted, s, 1))
                  ELSE Result(assigned, s + 1, "ok", FALSE, index,
                              Overwritten(d, s, 1), 0)

\* Insert(pos, const T&) and Insert(pos, T&&).
Insert(d, s, k, pos, arg, f) == Emplace(d, s, k, pos, arg, f)

\* PushBack(const T&) and PushBack(T&&).
PushBack(d, s, k, arg, f) == EmplaceBack(d, s, k, arg, f)

\* Erase with the range check pos > cend() in place of pos >= cend().
Erase_EndAllowed(d, s, pos, f) ==
    IF pos < 0 \/ pos > s
    THEN Result(d, s, "out_of_range", FALSE, -1, 0, 0)
    ELSE LET index == pos
             total == s - 1 - index
             shifted == ShiftLeft(d, index, s,
                                  IF f.at = "shift" THEN f.k - 1 ELSE total)
         IN  IF f.at = "shift"
             THEN Result(shifted, s, "throw", FALSE, -1, 0, 0)
             ELSE Result(destroy_n(shifted, s - 1, 1), s - 1, "ok", FALSE, index,
                         0, BadDestroys(shifted, s - 1, 1))

\* Erase(cbegin() + pos).  Fault: "shift" k, the k-th assignment of the loop
\* throws; nothing catches it.
Erase(d, s, pos, f) ==
    IF pos < 0 \/ pos >= s
    THEN Result(d, s, "out_of_range", FALSE, -1, 0, 0)
    ELSE LET index == pos
             total == s - 1 - index
             shifted == ShiftLeft(d, index, s,
                                  IF f.at = "shift" THEN f.k - 1 ELSE total)
         IN  IF f.at = "shift"
             THEN Result(shifted, s, "throw", FALSE, -1, 0, 0)
             ELSE Result(destroy_n(shifted, s - 1, 1), s - 1, "ok", FALSE, index,
                         0, BadDestroys(shifted, s - 1, 1))

---------------------------------------------------------------------------
(* Vector: assignment and Swap.  A two-vector operation leaves two vectors: *)
(* the one it is called on (data, size) and its argument (rhs).             *)

Vec(d, s) == [data |-> d, size |-> s]

Result2(r, rhs) ==
    [data |-> r.data, size |-> r.size, outcome |-> r.outcome,
     realloc |-> r.realloc, ret |-> r.ret, leaked |-> r.leaked, bad |-> r.bad,
     rhs |-> rhs]

\* std::copy_n assigning nothing.
CopyAssigned_None(src, dst, m) == dst

\* The first m assignments of std::copy_n(src, n, dst).
CopyAssigned(src, dst, m) ==
    [i \in DOMAIN dst |-> IF i <= m THEN src[i] ELSE dst[i]]

\* Faults: "assign" k, the k-th copy assignment of std::copy_n throws;
\* "copy" k, the k-th copy construction of std::uninitialized_copy_n throws.
AssignFromSmaller(d, s, rd, rs, f) ==
    LET common == Min(s, rs)
        copied == CopyAssigned(rd, d, IF f.at = "assign" THEN f.k - 1 ELSE common)
        cp == uninitialized_copy_n(rd, common, rs - common, copied, common,
                                   IF f.at = "copy" THEN f.k ELSE 0)
    IN  IF f.at = "assign"
        THEN Result(copied, s, "throw", FALSE, -1, 0, 0)
        ELSE IF rs > s
             THEN IF ~cp.ok
                  THEN Result(cp.dst, s, "throw", FALSE, -1, cp.lost, 0)
                  ELSE Result(cp.dst, rs, "ok", FALSE, -1, cp.lost, 0)
             ELSE Result(destroy_n(copied, rs, s - rs), rs, "ok", FALSE, -1,
                         0, BadDestroys(copied, rs, s - rs))

\* Copy assignment that always copies and swaps, whatever the capacity.
CopyAssign_AlwaysSwap(d, s, rd, rs, f) ==
    LET temp == CopyConstruct(rd, rs, f)
        gone == Destruct(d, s)
    IN  IF temp.outcome # "ok"
        THEN Result2(Result(d, s, "throw", temp.realloc, -1, temp.leaked, temp.bad),
                     Vec(rd, rs))
        ELSE Result2(Result(temp.data, temp.size, "ok", TRUE, -1,
                            temp.leaked + gone.leaked, temp.bad + gone.bad),
                     Vec(rd, rs))

\* operator=(const Vector& rhs) with this != &rhs.  Faults: "alloc" and
\* "copy" k (in Vector temp(rhs), or in AssignFromSmaller); "assign" k.
\* After Swap(temp), temp holds the old elements and is destroyed.
CopyAssign(d, s, rd, rs, f) ==
    IF rs > Capacity(d)
    THEN LET temp == CopyConstruct(rd, rs, f)
             gone == Destruct(d, s)
         IN  IF temp.outcome # "ok"
             THEN Result2(Result(d, s, "throw", temp.realloc, -1, temp.leaked, temp.bad),
                          Vec(rd, rs))
             ELSE Result2(Result(temp.data, temp.size, "ok", TRUE, -1,
                                 temp.leaked + gone.leaked, temp.bad + gone.bad),
                          Vec(rd, rs))
    ELSE Result2(AssignFromSmaller(d, s, rd, rs, f), Vec(rd, rs))

\* operator=(const Vector& rhs) with this == &rhs.
SelfCopyAssign(d, s) == Result(d, s, "ok", FALSE, -1, 0, 0)

\* Swap(other): data_.Swap(other.data_); std::swap(size_, other.size_).
Swap(d, s, rd, rs) ==
    Result2(Result(rd, rs, "ok", FALSE, -1, 0, 0), Vec(d, s))

\* operator=(Vector&& rhs) with this != &rhs.
MoveAssignVector(d, s, rd, rs) == Swap(d, s, rd, rs)

\* A move constructor that takes the buffer without emptying its source.
MoveConstruct_SourceKept(d, s) ==
    Result2(Result(d, s, "ok", FALSE, -1, 0, 0), Vec(d, s))

\* Vector(Vector&& other): the new vector is rhs; other is left with the
\* moved-from RawMemory (no buffer, capacity 0) and size 0.
MoveConstruct(d, s) ==
    Result2(Result(<<>>, 0, "ok", FALSE, -1, 0, 0), Vec(d, s))

\* Vector copy(*this): the new vector is rhs; *this is the source.
CopyConstructFrom(d, s, f) ==
    LET c == CopyConstruct(d, s, f)
    IN  Result2(Result(d, s, c.outcome, c.realloc, -1, c.leaked, c.bad),
                Vec(c.data, c.size))

---------------------------------------------------------------------------
(* The state machine: one Vector<T> and its caller.  The caller makes a    *)
(* call (one action per member function: the whole call, to its return or  *)
(* to the exception leaving it), looks at what the call did (last), and    *)
(* goes on to the next call (Continue).                                    *)

VARIABLES
    data_,   \* the slots of the vector's RawMemory; Len(data_) is capacity_
    size_,   \* Vector::size_
    alive,   \* the Vector object exists (constructed and not yet destroyed)
    kind,    \* the element type T
    last,    \* the call that has just ended (see Call), or NoCall
    appends,     \* SpecAppend: the appends made since construction
    relocations  \* SpecAppend: the elements those appends have relocated

vars == <<data_, size_, alive, kind, last, appends, relocations>>

NoVec == Vec(<<>>, 0)

\* The record of a call: its name, the fault injected, whether its element
\* argument referred to an element of the vector and the value the argument
\* had when the call was made, its position or count argument, the vector
\* before the call, the argument vector before and after the call
\* (two-vector calls only), and the Result.
Call(op, f, alias, val, arg, rhs_pre, r, rhs) ==
    [op |-> op, fault |-> f.at, alias |-> alias, val |-> val, arg |-> arg,
     pre |-> Vec(data_, size_), rhs_pre |-> rhs_pre, rhs |-> rhs,
     outcome |-> r.outcome, realloc |-> r.realloc, ret |-> r.ret,
     leaked |-> r.leaked, bad |-> r.bad]

NoCall ==
    [op |-> "none", fault |-> "none", alias |-> FALSE, val |-> 0, arg |-> 0,
     pre |-> NoVec, rhs_pre |-> NoVec, rhs |-> NoVec,
     outcome |-> "ok", realloc |-> FALSE, ret |-> -1, leaked |-> 0, bad |-> 0]

Contents(d, s) == SubSeq(d, 1, s)

\* The faults a call can meet.
RelocFaults(k, n) ==
    IF k = "nothrow_move" THEN {} ELSE {Fault("reloc", j) : j \in 1..n}

GrowFaults(k, n) == {Fault("alloc", 0)} \cup RelocFaults(k, n)

\* The vectors a two-vector call takes as its argument.
OtherVectors ==
    {Vec(c \o [i \in 1..spare |-> Raw], Len(c)) :
        <<c, spare>> \in {p \in (UNION {[1..n -> Values] : n \in 0..MaxOtherCap})
                                  \X (0..MaxOtherCap) :
                             Len(p[1]) + p[2] <= MaxOtherCap}}

\* The caller is between two calls.
Idle == last = NoCall

Apply(r, c) ==
    /\ Idle
    /\ data_' = r.data
    /\ size_' = r.size
    /\ last' = c
    /\ UNCHANGED <<kind, appends, relocations>>

\* A Vector<T> has just been default-constructed.
Init ==
    /\ data_ = DefaultConstruct.data
    /\ size_ = DefaultConstruct.size
    /\ alive = TRUE
    /\ kind \in Kinds
    /\ last = NoCall
    /\ appends = 0
    /\ relocations = 0

Continue ==
    /\ ~Idle
    /\ last' = NoCall
    /\ UNCHANGED <<data_, size_, alive, kind, appends, relocations>>

CallDefaultConstruct ==
    /\ ~alive
    /\ alive' = TRUE
    /\ LET r == DefaultConstruct
       IN  Apply(r, Call("Vector", NoFault, FALSE, 0, 0, NoVec, r, NoVec))

CallSizedConstruct ==
    /\ ~alive
    /\ \E n \in 0..MaxCap :
       \E f \in {NoFault, Fault("alloc", 0)} \cup {Fault("default", j) : j \in 1..n} :
         LET r == SizedConstruct(n, f)
         IN  /\ alive' = (r.outcome = "ok")
             /\ Apply(r, Call("Vector(n)", f, FALSE, 0, n, NoVec, r, NoVec))

CallDestruct ==
    /\ alive
    /\ alive' = FALSE
    /\ LET r == Destruct(data_, size_)
       IN  Apply(r, Call("~Vector", NoFault, FALSE, 0, 0, NoVec, r, NoVec))

CallReserve ==
    /\ alive
    /\ UNCHANGED alive
    /\ \E n \in 0..MaxCap :
       \E f \in {NoFault} \cup (IF n > Capacity(data_)
                                THEN GrowFaults(kind, size_) ELSE {}) :
         LET r == Reserve(data_, size_, kind, n, f)
         IN  Apply(r, Call("Reserve", f, FALSE, 0, n, NoVec, r, NoVec))

CallResize ==
    /\ alive
    /\ UNCHANGED alive
    /\ \E n \in 0..MaxCap :
       /\ n > Capacity(data_) => 2 * Capacity(data_) <= MaxCap
       /\ \E f \in {NoFault}
                \cup {Fault("default", j) : j \in 1..(n - size_)}
                \cup (IF n > Capacity(data_)
                      THEN GrowFaults(kind, size_) ELSE {}) :
            LET r == Resize(data_, size_, kind, n, f)
            IN  Apply(r, Call("Resize", f, FALSE, 0, n, NoVec, r, NoVec))

CallPopBack ==
    /\ alive
    /\ UNCHANGED alive
    /\ LET r == PopBack(data_, size_)
       IN  Apply(r, Call("PopBack", NoFault, FALSE, 0, 0, NoVec, r, NoVec))

\* The element arguments of PushBack and Insert: a value, or (const T&) an
\* element of the vector itself.
ElementArgs ==
    {ValueArg(v) : v \in Values}
      \cup (IF Copyable(kind) THEN {AliasArg(i) : i \in 0..(size_ - 1)} ELSE {})

AppendFaults ==
    {NoFault, Fault("new", 0)}
      \cup (IF size_ = Capacity(data_) THEN GrowFaults(kind, size_) ELSE {})

CanGrow == size_ = Capacity(data_) => 2 * Capacity(data_) <= MaxCap

CallPushBack ==
    /\ alive
    /\ UNCHANGED alive
    /\ CanGrow
    /\ \E a \in ElementArgs : \E f \in AppendFaults :
         LET r == PushBack(data_, size_, kind, a, f)
         IN  Apply(r, Call("PushBack", f, a.alias, ArgValue(a, data_), 0,
                           NoVec, r, NoVec))

CallEmplaceBack ==
    /\ alive
    /\ UNCHANGED alive
    /\ CanGrow
    /\ \E v \in Values : \E f \in AppendFaults :
         LET r == EmplaceBack(data_, size_, kind, ValueArg(v), f)
         IN  Apply(r, Call("EmplaceBack", f, FALSE, v, 0, NoVec, r, NoVec))

Positions == -1..(size_ + 1)

\* The faults of Emplace at position pos.
InsertFaults(pos) ==
    IF pos < 0 \/ pos > size_ THEN {NoFault}
    ELSE IF size_ = Capacity(data_)
    THEN {NoFault, Fault("new", 0), Fault("alloc", 0)}
           \cup RelocFaults(kind, pos)
           \cup (IF kind = "nothrow_move" THEN {}
                 ELSE {Fault("suffix", j) : j \in 1..(size_ - pos)})
    ELSE IF pos = size_ THEN {NoFault, Fault("new", 0)}
    ELSE {NoFault, Fault("new", 0), Fault("assign", 0)}
           \cup (IF MoveMayThrow(kind) THEN {Fault("last", 0)} ELSE {})
           \cup {Fault("shift", j) : j \in 1..(size_ - 1 - pos)}

CallEmplace ==
    /\ alive
    /\ UNCHANGED alive
    /\ CanGrow
    /\ \E pos \in Positions : \E v \in Values : \E f \in InsertFaults(pos) :
         LET r == Emplace(data_, size_, kind, pos, ValueArg(v), f)
         IN  Apply(r, Call("Emplace", f, FALSE, v, pos, NoVec, r, NoVec))

CallInsert ==
    /\ alive
    /\ UNCHANGED alive
    /\ CanGrow
    /\ \E pos \in Positions : \E a \in ElementArgs : \E f \in InsertFaults(pos) :
         LET r == Insert(data_, size_, kind, pos, a, f)
         IN  Apply(r, Call("Insert", f, a.alias, ArgValue(a, data_), pos,
                           NoVec, r, NoVec))

CallErase ==
    /\ alive
    /\ UNCHANGED alive
    /\ \E pos \in Positions :
       \E f \in {NoFault} \cup (IF pos >= 0 /\ pos < size_
                                THEN {Fault("shift", j) : j \in 1..(size_ - 1 - pos)}
                                ELSE {}) :
         LET r == Erase(data_, size_, pos, f)
         IN  Apply(r, Call("Erase", f, FALSE, 0, pos, NoVec, r, NoVec))

\* The caller's round trip: Erase(pos) has just succeeded, and the caller
\* inserts the erased value at the same position.  The record keeps the
\* vector as it was before the Erase.
CallInsertAfterErase ==
    /\ alive
    /\ UNCHANGED <<alive, kind, appends, relocations>>
    /\ last.op = "Erase" /\ last.outcome = "ok"
    /\ \E f \in InsertFaults(last.arg) :
         LET v == last.pre.data[last.arg + 1]
             r == Insert(data_, size_, kind, last.arg, ValueArg(v), f)
         IN  /\ data_' = r.data
             /\ size_' = r.size
             /\ last' = [Call("Erase;Insert", f, FALSE, v, last.arg, NoVec, r, NoVec)
                           EXCEPT !.pre = last.pre]

\* The faults of a = rhs.
AssignFaults(rhs) ==
    IF rhs.size > Capacity(data_)
    THEN {NoFault, Fault("alloc", 0)} \cup {Fault("copy", j) : j \in 1..rhs.size}
    ELSE {NoFault}
           \cup {Fault("assign", j) : j \in 1..Min(size_, rhs.size)}
           \cup {Fault("copy", j) : j \in 1..(rhs.size - size_)}

CallCopyAssign ==
    /\ alive
    /\ UNCHANGED alive
    /\ Copyable(kind)
    /\ \E rhs \in OtherVectors : \E f \in AssignFaults(rhs) :
         LET r == CopyAssign(data_, size_, rhs.data, rhs.size, f)
         IN  Apply(r, Call("operator=", f, FALSE, 0, 0, rhs, r, r.rhs))

CallSelfCopyAssign ==
    /\ alive
    /\ UNCHANGED alive
    /\ Copyable(kind)
    /\ LET r == SelfCopyAssign(data_, size_)
       IN  Apply(r, Call("self=", NoFault, FALSE, 0, 0, NoVec, r, NoVec))

\* The vector's buffer becomes the other vector's: it is one of OtherVectors.
FitsOther == Capacity(data_) <= MaxOtherCap

CallMoveAssign ==
    /\ alive
    /\ UNCHANGED alive
    /\ FitsOther
    /\ \E rhs \in OtherVectors :
         LET r == MoveAssignVector(data_, size_, rhs.data, rhs.size)
         IN  Apply(r, Call("operator=&&", NoFault, FALSE, 0, 0, rhs, r, r.rhs))

CallSwap ==
    /\ alive
    /\ UNCHANGED alive
    /\ FitsOther
    /\ \E rhs \in OtherVectors :
         LET r == Swap(data_, size_, rhs.data, rhs.size)
         IN  Apply(r, Call("Swap", NoFault, FALSE, 0, 0, rhs, r, r.rhs))

CallMoveConstruct ==
    /\ alive
    /\ UNCHANGED alive
    /\ FitsOther
    /\ LET r == MoveConstruct(data_, size_)
       IN  Apply(r, Call("Vector(&&)", NoFault, FALSE, 0, 0, NoVec, r, r.rhs))

CallCopyConstruct ==
    /\ alive
    /\ UNCHANGED alive
    /\ Copyable(kind)
    /\ size_ <= MaxOtherCap
    /\ \E f \in {NoFault, Fault("alloc", 0)} \cup {Fault("copy", j) : j \in 1..size_} :
         LET r == CopyConstructFrom(data_, size_, f)
         IN  Apply(r, Call("Vector(const&)", f, FALSE, 0, 0, NoVec, r, r.rhs))

Next ==
    \/ CallDefaultConstruct
    \/ CallSizedConstruct
    \/ CallDestruct
    \/ CallReserve
    \/ CallResize
    \/ CallPopBack
    \/ CallPushBack
    \/ CallEmplaceBack
    \/ CallEmplace
    \/ CallInsert
    \/ CallErase
    \/ CallInsertAfterErase
    \/ CallCopyAssign
    \/ CallSelfCopyAssign
    \/ CallMoveAssign
    \/ CallSwap
    \/ CallMoveConstruct
    \/ CallCopyConstruct
    \/ Continue

Spec == Init /\ [][Next]_vars

\* A run of successful appends to a default-constructed vector: no other
\* call is made, and each append adds the elements it relocated (size_ of
\* them when it reallocates, lines 249-252) to the count.
AppendRun(r) ==
    /\ r.outcome = "ok"
    /\ data_' = r.data
    /\ size_' = r.size
    /\ appends' = appends + 1
    /\ relocations' = relocations + (IF r.realloc THEN size_ ELSE 0)
    /\ UNCHANGED <<alive, kind, last>>

AppendPushBack ==
    /\ appends < MaxAppends
    /\ \E a \in ElementArgs : AppendRun(PushBack(data_, size_, kind, a, NoFault))

AppendEmplaceBack ==
    /\ appends < MaxAppends
    /\ \E v \in Values :
         AppendRun(EmplaceBack(data_, size_, kind, ValueArg(v), NoFault))

NextAppend ==
    \/ AppendPushBack
    \/ AppendEmplaceBack

SpecAppend == Init /\ [][NextAppend]_vars

---------------------------------------------------------------------------
(* Properties *)

WellFormed(d, s) ==
    /\ s <= Capacity(d)
    /\ \A i \in 1..Capacity(d) : (i <= s) <=> (d[i] # Raw)

Ended(ops, outcome) == last.op \in ops /\ last.outcome = outcome

PreContents == Contents(last.pre.data, last.pre.size)
PreFull == last.pre.size = Capacity(last.pre.data)

\* s with v inserted before index i (0-based).
InsertedAt(s, i, v) == SubSeq(s, 1, i) \o <<v>> \o SubSeq(s, i + 1, Len(s))
\* s with the element at index i (0-based) removed.
RemovedAt(s, i) == SubSeq(s, 1, i) \o SubSeq(s, i + 2, Len(s))

\* C1: in every state reached by any sequence of calls, those that throw
\* included, Size() <= Capacity(), the slots [0, Size()) hold constructed
\* elements and the slots [Size(), Capacity()) hold none; the same holds of
\* the other vector of a two-vector call.
C1_SlotsInvariant ==
    /\ WellFormed(data_, size_)
    /\ WellFormed(last.rhs.data, last.rhs.size)
    /\ ~alive => Capacity(data_) = 0

\* A shift of Insert without reallocation has thrown, on a vector that keeps
\* elements and spare slots.
C1_Witness ==
    /\ Ended({"Insert", "Emplace"}, "throw")
    /\ last.fault \in {"shift", "assign"}
    /\ size_ >= 2 /\ size_ < Capacity(data_)

\* C2: after PushBack(v) succeeds (v a value, not a reference into the
\* vector), the size has grown by exactly 1, the last element equals v and the
\* elements at the previous indices are unchanged, in order.
C2_PushBack ==
    (Ended({"PushBack"}, "ok") /\ ~last.alias) =>
        /\ size_ = last.pre.size + 1
        /\ data_[size_] = last.val
        /\ Contents(data_, last.pre.size) = PreContents

\* PushBack of a value unlike the default on a full, non-empty vector.
C2_Witness ==
    /\ Ended({"PushBack"}, "ok") /\ ~last.alias
    /\ last.realloc /\ last.pre.size >= 1 /\ last.val # DefaultValue

\* C3: if the construction of the new element throws during an EmplaceBack
\* or PushBack that reallocates, the size, the capacity and the value of
\* every element are what they were before the call, for every element type.
C3_EmplaceBackStrong ==
    (Ended({"EmplaceBack", "PushBack"}, "throw")
       /\ last.fault = "new" /\ PreFull) =>
        /\ size_ = last.pre.size
        /\ data_ = last.pre.data

\* C4: if Emplace or Insert reallocates and one of its three steps throws
\* (the relocation of the prefix, the construction of the new element, the
\* relocation of the suffix), the size, the capacity and the value of every
\* element are as before the call and everything constructed in the new
\* buffer has been destroyed.
C4_EmplaceReallocStrong ==
    (Ended({"Emplace", "Insert"}, "throw")
       /\ last.fault \in {"reloc", "new", "suffix"} /\ PreFull) =>
        /\ size_ = last.pre.size
        /\ data_ = last.pre.data
        /\ last.leaked = 0

\* C5: if a copy construction or a copy assignment of an element throws
\* during a = b, a is exactly as before the call and b is unmodified, both
\* when b.Size() > a.Capacity() and when b.Size() <= a.Capacity().
C5_CopyAssignStrong ==
    (Ended({"operator="}, "throw") /\ last.fault \in {"copy", "assign"}) =>
        /\ size_ = last.pre.size
        /\ data_ = last.pre.data
        /\ last.rhs = last.rhs_pre

\* C6: if the value-initialisation of a new trailing element throws during
\* Resize(n) with n > Capacity(), the size, the capacity and the value of
\* every element are what they were before the call.
C6_ResizeStrong ==
    (Ended({"Resize"}, "throw") /\ last.fault = "default"
       /\ last.realloc) =>
        /\ size_ = last.pre.size
        /\ data_ = last.pre.data

\* C7: in every call, those that throw and the destructor included, every
\* constructed element is destroyed exactly once: no buffer is released
\* while a slot of it holds an element, no element is constructed over, and
\* no slot is destroyed that holds no element.
C7_DestroyedExactlyOnce ==
    /\ last.leaked = 0
    /\ last.bad = 0

\* C8: Erase(begin() + i) followed by Insert(begin() + i, v), v the erased
\* value, restores the elements, their order and the size.
C8_EraseInsertRoundTrip ==
    Ended({"Erase;Insert"}, "ok") =>
        /\ size_ = last.pre.size
        /\ Contents(data_, size_) = PreContents

\* The round trip on a vector of at least two elements, the erased one not
\* the last, its neighbours of different values.
C8_Witness ==
    /\ Ended({"Erase;Insert"}, "ok")
    /\ last.pre.size >= 2 /\ last.arg + 1 < last.pre.size
    /\ last.pre.data[last.arg + 1] # last.pre.data[last.arg + 2]

\* C9: a successful Emplace or Insert of a value at index i leaves
\* s[0..i), the new element, s[i..size), the size increased by 1, and
\* returns begin() + i, without reallocation and with reallocation.
C9_Emplace ==
    (Ended({"Emplace", "Insert"}, "ok") /\ ~last.alias) =>
        /\ size_ = last.pre.size + 1
        /\ Contents(data_, size_) = InsertedAt(PreContents, last.arg, last.val)
        /\ last.ret = last.arg

\* An insertion before the end, without reallocation, that shifts elements.
C9_Witness ==
    /\ Ended({"Emplace", "Insert"}, "ok") /\ ~last.alias
    /\ ~last.realloc /\ last.arg = 0 /\ last.pre.size >= 2
    /\ last.val # last.pre.data[1]

\* C10: a successful Erase at index i leaves s without the element at
\* index i, the others in order, the size decremented, the capacity
\* unchanged, and returns begin() + i: the position of the element that
\* followed the removed one, or end() if the removed one was last.
C10_Erase ==
    Ended({"Erase"}, "ok") =>
        /\ size_ = last.pre.size - 1
        /\ Contents(data_, size_) = RemovedAt(PreContents, last.arg)
        /\ Capacity(data_) = Capacity(last.pre.data)
        /\ last.ret = last.arg
        /\ last.ret <= size_
        /\ last.ret < size_ => data_[last.ret + 1] = last.pre.data[last.arg + 2]
        /\ last.arg = last.pre.size - 1 => last.ret = size_

\* The first of three elements is erased, and the next one differs from it.
C10_Witness ==
    /\ Ended({"Erase"}, "ok")
    /\ last.pre.size >= 3 /\ last.arg = 0
    /\ last.pre.data[1] # last.pre.data[2]


\* C11: Emplace and Insert at a position outside [begin(), end()], and
\* Erase at a position outside [begin(), end()), fail with out_of_range and
\* leave the size, the capacity and the element values unchanged.
C11_OutOfRange ==
    (\/ last.op \in {"Emplace", "Insert"}
          /\ (last.arg < 0 \/ last.arg > last.pre.size)
     \/ last.op = "Erase"
          /\ (last.arg < 0 \/ last.arg >= last.pre.size)) =>
        /\ last.outcome = "out_of_range"
        /\ size_ = last.pre.size
        /\ data_ = last.pre.data

\* Erase(end()) on a vector that has elements.
C11_Witness ==
    /\ last.op = "Erase" /\ last.outcome = "out_of_range"
    /\ last.arg = last.pre.size /\ last.pre.size >= 1

C14_AmortizedGrowth ==
    appends >= 1 =>
        /\ size_ = appends
        /\ appends <= Capacity(data_)
        /\ Capacity(data_) <= 2 * appends
        /\ relocations < 2 * appends

\* Five appends: four of them reallocated (at sizes 0, 1, 2 and 4) and
\* relocated 7 elements between them; the capacity is 8.
C14_Witness ==
    appends = 5 /\ relocations = 7 /\ Capacity(data_) = 8


\* C15: a vector D constructed from a vector S has the element values S had
\* before the call, in the same order.  Copy construction leaves S's size,
\* capacity and values as they were and gives D a capacity equal to S's
\* size; move construction leaves S with size 0 and capacity 0 and gives D
\* the buffer, hence the capacity, S had.
C15_ConstructFrom ==
    /\ Ended({"Vector(const&)"}, "ok") =>
        /\ last.rhs.size = last.pre.size
        /\ Contents(last.rhs.data, last.rhs.size) = PreContents
        /\ Capacity(last.rhs.data) = last.pre.size
        /\ size_ = last.pre.size
        /\ data_ = last.pre.data
    /\ Ended({"Vector(&&)"}, "ok") =>
        /\ last.rhs.size = last.pre.size
        /\ Contents(last.rhs.data, last.rhs.size) = PreContents
        /\ Capacity(last.rhs.data) = Capacity(last.pre.data)
        /\ size_ = 0
        /\ Capacity(data_) = 0

\* A vector holding an element that is not value-initialised, with spare
\* capacity, has been moved from.
C15_Witness ==
    /\ Ended({"Vector(&&)"}, "ok")
    /\ last.pre.size >= 1
    /\ Capacity(last.pre.data) > last.pre.size
    /\ last.pre.data[1] # DefaultValue


\* C16: PushBack, EmplaceBack, PopBack, Emplace, Insert, Erase, Resize,
\* Reserve and copy assignment never decrease Capacity(), whether the call
\* succeeds or fails; so the capacity is non-decreasing along every sequence
\* of these calls.
CapacityKeepers ==
    {"PushBack", "EmplaceBack", "PopBack", "Emplace", "Insert", "Erase",
     "Erase;Insert", "Resize", "Reserve", "operator=", "self="}

C16_CapacityNeverShrinks ==
    last.op \in CapacityKeepers => Capacity(data_) >= Capacity(last.pre.data)

\* A copy assignment from a shorter vector has left spare capacity behind.
C16_Witness ==
    /\ Ended({"operator="}, "ok")
    /\ last.rhs_pre.size < last.pre.size
    /\ Capacity(last.rhs_pre.data) < Capacity(last.pre.data)
    /\ Capacity(data_) > size_


\* C17: EmplaceBack, PushBack, Emplace and Insert reallocate if and only if
\* Size() = Capacity() at the call, and then once, to capacity 1 when the old
\* capacity is 0 and to twice the old capacity otherwise; Emplace(end(), v)
\* on a full vector reallocates once and leaves the new element last.
C17_GrowthPolicy ==
    last.op \in {"EmplaceBack", "PushBack", "Emplace", "Insert"} =>
        LET oldCap == Capacity(last.pre.data)
        IN  /\ ~PreFull => ~last.realloc /\ Capacity(data_) = oldCap
            /\ last.outcome = "ok" =>
                /\ last.realloc <=> PreFull
                /\ last.realloc =>
                     Capacity(data_) = (IF oldCap = 0 THEN 1 ELSE 2 * oldCap)
                /\ (last.op \in {"Emplace", "Insert"}
                      /\ last.arg = last.pre.size /\ PreFull) =>
                     /\ last.realloc
                     /\ size_ = last.pre.size + 1
                     /\ last.ret = size_ - 1
                     /\ Contents(data_, last.pre.size) = PreContents
                     /\ ~last.alias => data_[size_] = last.val

\* Emplace(end(), v) on a full vector that has elements.
C17_Witness ==
    /\ Ended({"Emplace"}, "ok")
    /\ PreFull /\ last.pre.size >= 1
    /\ last.arg = last.pre.size
    /\ last.val # last.pre.data[1]


\* C18: when a step of the in-place shift of Emplace(pos, args...) fails
\* (called with Size() < Capacity() and pos # end(): the move construction of
\* the last element into the free slot, a step of the backward move, or the
\* move assignment of the temporary into slot pos), the call throws with the
\* size and the capacity unchanged, the slot at index size is not left
\* constructed, and no element has been destroyed twice or leaked.
C18_ShiftFailure ==
    (/\ Ended({"Emplace", "Insert"}, "throw")
     /\ last.fault \in {"last", "shift", "assign"}) =>
        /\ ~PreFull /\ last.arg < last.pre.size
        /\ size_ = last.pre.size
        /\ Capacity(data_) = Capacity(last.pre.data)
        /\ data_[size_ + 1] = Raw
        /\ WellFormed(data_, size_)
        /\ last.bad = 0
        /\ last.leaked = 0

\* The move assignment of the temporary failed after the whole suffix had
\* been shifted.
C18_Witness ==
    /\ Ended({"Emplace"}, "throw")
    /\ last.fault = "assign"
    /\ last.pre.size >= 2 /\ last.arg = 0


\* C19: after a successful copy assignment a = b, with a and b distinct, a
\* has b's size and b's element values in the same order and b is
\* unmodified; a's capacity is unchanged (and nothing is allocated) when
\* b.Size() <= a's old capacity, and equals b.Size() when b.Size() > a's old
\* capacity.  A self-assignment a = a changes nothing.
C19_CopyAssign ==
    /\ Ended({"operator="}, "ok") =>
        LET b == last.rhs_pre
            oldCap == Capacity(last.pre.data)
        IN  /\ size_ = b.size
            /\ Contents(data_, size_) = Contents(b.data, b.size)
            /\ last.rhs = b
            /\ b.size <= oldCap => Capacity(data_) = oldCap /\ ~last.realloc
            /\ b.size > oldCap => Capacity(data_) = b.size
    /\ last.op = "self=" =>
        /\ last.outcome = "ok"
        /\ data_ = last.pre.data
        /\ size_ = last.pre.size

\* b is longer than a but fits a's capacity: the common prefix is assigned
\* and the rest copy-constructed in place.
C19_Witness ==
    /\ Ended({"operator="}, "ok")
    /\ last.pre.size >= 1
    /\ last.rhs_pre.size > last.pre.size
    /\ last.rhs_pre.size <= Capacity(last.pre.data)
    /\ last.rhs_pre.data[1] # last.pre.data[1]


\* C20: when the argument of PushBack or Insert refers to an element of the
\* vector itself (v.PushBack(v[i]), v.Insert(pos, v[i])), the inserted
\* element has the value v[i] had before the call and every element that was
\* there keeps its value, whether the call reallocates or not, for element
\* types relocated by move and by copy.
C20_SelfReference ==
    (Ended({"PushBack", "Insert"}, "ok") /\ last.alias) =>
        LET index == IF last.op = "PushBack" THEN last.pre.size ELSE last.arg
        IN  /\ size_ = last.pre.size + 1
            /\ Contents(data_, size_) = InsertedAt(PreContents, index, last.val)

====
